---- MODULE Spec2Model ----
(***************************************************************************)
(* Model of broot's tree renderer (src/displayable_tree.rs) and of the     *)
(* launch argument reader (src/cli.rs).                                    *)
(*                                                                         *)
(* A render is DisplayableTree::write_on: one pass over the rows of the    *)
(* viewport, each row a sequence of writes on the output sink.  The model  *)
(* keeps every write as one record of the sequence `out`, in order.        *)
(***************************************************************************)
EXTENDS Integers, Sequences, FiniteSets

VARIABLES
    tree,        \* the Tree: lines, scroll, selection, options
    in_app,      \* DisplayableTree.in_app
    height,      \* DisplayableTree.area.height
    pc,          \* where the program is: "launch", "launched", "start", "rows", "done"
    y,           \* the row the loop of write_on is at
    scrollbar,   \* the local `scrollbar` of write_on
    ugml,        \* the local `user_group_max_lengths` of write_on
    out,         \* the writes the sink has accepted, in order
    result,      \* what write_on returned: "none" (running), "Ok", "Err"
    sink,        \* the output sink: "buffer" (never fails) or "io" (a write may fail)
    cli_args,    \* the parsed command line (clap::ArgMatches)
    launch       \* what read_launch_args returned

vars == <<tree, in_app, height, pc, y, scrollbar, ugml, out, result, sink, cli_args, launch>>

render_vars == <<tree, in_app, height, y, scrollbar, ugml, out, result, sink>>

----------------------------------------------------------------------------
(* Bounds of the model.                                                    *)

MaxLines == 4        \* a Tree has 1..MaxLines lines
MaxHeight == 3       \* an interactive viewport has 1..MaxHeight rows
MaxScroll == 2       \* tree.scroll ranges over 0..MaxScroll
MaxNameLen == 2      \* owner and group names have 1..MaxNameLen characters

(* Widths fixed by the source's format strings and literals.               *)

GlyphWidth == 3          \* each branch glyph is 3 characters
SizeMinWidth == 5        \* "{:>5}"
BarWidth == 10           \* "{:<10}", ProgressBar::new(_, 10)
SizePlaceholderWidth == 17   \* 16 dashes and a space
PermPlaceholderWidth == 14   \* 14 dashes
DatePlaceholderWidth == 17   \* 16 dashes and a space
DateWidth == 17          \* "%Y/%m/%d %R " : 10 + 1 + 5 + 1
ModeWidth == 9           \* the permission bits, "rwxr-xr-x"

None == "None"

Max(a, b) == IF a >= b THEN a ELSE b

Min(a, b) == IF a <= b THEN a ELSE b

----------------------------------------------------------------------------
(* The Tree: a flat sequence of lines.  Sequences are 1-based here, the    *)
(* source's indices are 0-based: line index i is lines[i + 1].             *)

LineTypes == {"Dir", "File", "SymLinkToFile", "SymLinkToDir", "Pruning"}

(* What a line carries besides its place in the tree.                      *)
Attr(line_type, has_size, size_len, modified_ok, unlisted, has_error, is_exe) ==
    [line_type |-> line_type, has_size |-> has_size, size_len |-> size_len,
     modified_ok |-> modified_ok, unlisted |-> unlisted, has_error |-> has_error,
     is_exe |-> is_exe]

PlainDir == Attr("Dir", TRUE, 4, TRUE, 1, FALSE, FALSE)

PlainFile == Attr("File", TRUE, 2, TRUE, 0, FALSE, FALSE)

BareFile == Attr("File", FALSE, 0, FALSE, 0, FALSE, TRUE)

PruningLine == Attr("Pruning", FALSE, 0, FALSE, 0, FALSE, FALSE)

GoodLink == Attr("SymLinkToDir", TRUE, 5, TRUE, 0, FALSE, FALSE)

BrokenLink == Attr("SymLinkToFile", FALSE, 0, FALSE, 0, TRUE, FALSE)

(* The depth sequences of a flattened tree of n lines: the root has depth  *)
(* 0, every other line has depth >= 1 and at most one more than the line   *)
(* before it.                                                              *)
DepthSeqs(n) ==
    { s \in [1..n -> 0..(n - 1)] :
        /\ s[1] = 0
        /\ \A i \in 2..n : s[i] >= 1 /\ s[i] <= s[i - 1] + 1 }

(* left_branchs of line i: the bit of depth d is set when the ancestor of  *)
(* depth d still has a child at or after line i.                           *)
LeftBranchs(depths, i) ==
    [ dd \in 1..depths[i] |->
        \E j \in i..Len(depths) :
            /\ depths[j] = dd
            /\ \A m \in i..j : depths[m] >= dd ]

TreeLine(depths, i, attr, user_len, group_len) ==
    [depth |-> depths[i], left_branchs |-> LeftBranchs(depths, i),
     line_type |-> attr.line_type, has_size |-> attr.has_size,
     size_len |-> attr.size_len, modified_ok |-> attr.modified_ok,
     unlisted |-> attr.unlisted, has_error |-> attr.has_error,
     is_exe |-> attr.is_exe, user_len |-> user_len, group_len |-> group_len]

TreeOptionsSet == [show_sizes : BOOLEAN, show_permissions : BOOLEAN, show_dates : BOOLEAN]

NoColumns == [show_sizes |-> FALSE, show_permissions |-> FALSE, show_dates |-> FALSE]

NbLines(t) == Len(t.lines)

Line(t, line_index) == t.lines[line_index + 1]

is_selectable(line) == line.line_type # "Pruning"

is_dir(line) == line.line_type \in {"Dir", "SymLinkToDir"}

(* Tree::has_branch: does depth `depth` still have an open branch at or    *)
(* after line line_index.                                                  *)
has_branch(t, line_index, depth) ==
    \E j \in line_index..(NbLines(t) - 1) :
        /\ Line(t, j).depth > depth
        /\ Line(t, j).left_branchs[depth + 1]

----------------------------------------------------------------------------
(* The writes.  One record per write on the sink:                          *)
(*   k     "MoveTo", "SetBg", "SetFg", "Print", "Clear" or "Newline"       *)
(*   col   the column a Print belongs to ("branch", "size", "perm", "date",*)
(*         "name", "more", "arrow", "target", "scrollbar"), else "-"       *)
(*   a     what is written: the glyph, "value" or "placeholder", the       *)
(*         background set, the column moved to                             *)
(*   style the skin entry the write is styled with ("raw": a bare write!)  *)
(*   bg    the background a Print is written on: "sel" the selection       *)
(*         background, "own" the background of its style, "cur" whatever   *)
(*         the terminal currently has                                      *)
(*   w     the width of a Print in characters                              *)

Op(k, col, a, style, bg, w) ==
    [k |-> k, col |-> col, a |-> a, style |-> style, bg |-> bg, w |-> w]

MoveTo(x) == Op("MoveTo", "-", x, "-", "-", 0)

SetBg(style) == Op("SetBg", "-", style, style, "-", 0)

SetFg(style) == Op("SetFg", "-", style, style, "-", 0)

Put(col, a, style, bg, w) == Op("Print", col, a, style, bg, w)

ClearUntilNewLine == Op("Clear", "-", "UntilNewLine", "-", "-", 0)

Newline == Op("Newline", "-", "\\r\\n", "raw", "-", 0)

(* "{:>w$}" and "{:w$}": a string shorter than w is padded to w, a longer  *)
(* one is written whole.                                                   *)
Padded(len, w) == Max(len, w)

(* The background of a clone of a style on which set_bg(selection) was     *)
(* called when the row is selected.                                        *)
BgOf(selected) == IF selected THEN "sel" ELSE "own"

name_style(line) ==
    CASE line.line_type = "Dir" -> "directory"
      [] line.line_type = "File" -> (IF line.is_exe THEN "exe" ELSE "file")
      [] line.line_type \in {"SymLinkToFile", "SymLinkToDir"} -> "link"
      [] line.line_type = "Pruning" -> "pruning"

write_line_size(line, selected) ==
    IF line.has_size
    THEN (IF selected THEN <<SetBg("selected_line")>> ELSE <<>>)
         \o <<SetFg(name_style(line)),
              Put("size", "value", "raw", IF selected THEN "sel" ELSE "cur",
                    Padded(line.size_len, SizeMinWidth) + 1 + BarWidth + 1)>>
    ELSE <<Put("size", "placeholder", "tree", "own", SizePlaceholderWidth)>>

write_date == <<Put("date", "value", "dates", "own", DateWidth)>>

(* write_line_name with the test of line 133 lost: the root goes through   *)
(* the highlighter like any line.                                          *)
write_line_name_highlight_all(line, idx, selected) ==
    LET style == name_style(line)
        rest == CASE line.line_type = "Dir" ->
                       (IF line.unlisted > 0
                        THEN <<Put("more", "...", style, BgOf(selected), 2)>>
                        ELSE <<>>)
                  [] line.line_type \in {"SymLinkToFile", "SymLinkToDir"} ->
                       <<Put("arrow", "->", style, BgOf(selected), 4)>>
                       \o (IF line.has_error
                           THEN <<Put("target", "target", "file_error", "own", 0)>>
                           ELSE <<Put("target", "target",
                                      IF is_dir(line) THEN "directory" ELSE "file",
                                      BgOf(selected), 0)>>)
                  [] OTHER -> <<>>
    IN <<Put("name", "highlight", style, BgOf(selected), 0)>> \o rest

write_line_name(line, idx, selected) ==
    LET style == name_style(line)
        name == IF idx = 0
                THEN <<Put("name", "path", style, BgOf(selected), 0)>>
                ELSE <<Put("name", "highlight", style, BgOf(selected), 0)>>
        rest == CASE line.line_type = "Dir" ->
                       (IF line.unlisted > 0
                        THEN <<Put("more", "...", style, BgOf(selected), 2)>>
                        ELSE <<>>)
                  [] line.line_type \in {"SymLinkToFile", "SymLinkToDir"} ->
                       <<Put("arrow", "->", style, BgOf(selected), 4)>>
                       \o (IF line.has_error
                           THEN <<Put("target", "target", "file_error", "own", 0)>>
                           ELSE <<Put("target", "target",
                                        IF is_dir(line) THEN "directory" ELSE "file",
                                        BgOf(selected), 0)>>)
                  [] OTHER -> <<>>
    IN name \o rest

(* BranchGlyph looking at the line itself instead of the next one.         *)
BranchGlyphSameLine(t, line_index, depth) ==
    LET line == Line(t, line_index) IN
    IF line.left_branchs[depth + 1]
    THEN IF has_branch(t, line_index, depth)
         THEN (IF depth = line.depth - 1 THEN "continue" ELSE "pass")
         ELSE "turn"
    ELSE "blank"

(* The glyph of ancestor level `depth` of the line of index line_index.    *)
BranchGlyph(t, line_index, depth) ==
    LET line == Line(t, line_index) IN
    IF line.left_branchs[depth + 1]
    THEN IF has_branch(t, line_index + 1, depth)
         THEN (IF depth = line.depth - 1 THEN "continue" ELSE "pass")
         ELSE "turn"
    ELSE "blank"

BranchPrefix(t, line_index) ==
    [ i \in 1..Line(t, line_index).depth |->
        Put("branch", BranchGlyph(t, line_index, i - 1), "tree", "own", GlyphWidth) ]

PermissionsColumn(line, lengths) ==
    IF is_selectable(line)
    THEN <<Put("perm", "mode", "permissions", "own", ModeWidth),
           Put("perm", "user", "raw", "cur", 1 + Padded(line.user_len, lengths[1])),
           Put("perm", "group", "raw", "cur", 1 + Padded(line.group_len, lengths[2]) + 1)>>
    ELSE <<Put("perm", "placeholder", "tree", "own", PermPlaceholderWidth)>>

DateColumn(line) ==
    IF line.modified_ok
    THEN write_date
    ELSE <<Put("date", "placeholder", "tree", "own", DatePlaceholderWidth)>>

(* LineIndex with the scroll added on row 0 too.                           *)
LineIndexScrollAll(t, yy) == yy + t.scroll

(* The line index row yy shows.                                            *)
LineIndex(t, yy) == IF yy > 0 THEN yy + t.scroll ELSE yy

(* What write_on writes for the line of a row, when the row has one.       *)
LineOps(t, app, lengths, line_index) ==
    LET line == Line(t, line_index)
        selected == app /\ line_index = t.selection
    IN  BranchPrefix(t, line_index)
        \o (IF t.options.show_sizes /\ line_index > 0
            THEN write_line_size(line, selected) ELSE <<>>)
        \o (IF t.options.show_permissions /\ line_index > 0
            THEN PermissionsColumn(line, lengths) ELSE <<>>)
        \o (IF t.options.show_dates /\ line_index > 0
            THEN DateColumn(line) ELSE <<>>)
        \o write_line_name(line, line_index, selected)

(* ScrollbarOps with the top of the thumb left out of it.                  *)
ScrollbarOpsOpenTop(sb, width_col, yy) ==
    IF sb = None
    THEN <<>>
    ELSE <<MoveTo(width_col),
           Put("scrollbar", "glyph",
               IF sb[1] < yy /\ yy <= sb[2] THEN "scrollbar_thumb" ELSE "scrollbar_track",
               "own", 1)>>

ScrollbarOps(sb, width_col, yy) ==
    IF sb = None
    THEN <<>>
    ELSE <<MoveTo(width_col),
           Put("scrollbar", "glyph",
                 IF sb[1] <= yy /\ yy <= sb[2] THEN "scrollbar_thumb" ELSE "scrollbar_track",
                 "own", 1)>>

(* RowWrites leaving a row that has no line as it is on the screen.        *)
RowWritesNoErase(t, app, sb, lengths, yy) ==
    LET line_index == LineIndex(t, yy)
        has_line == line_index < NbLines(t)
        selected == has_line /\ app /\ line_index = t.selection
    IN  IF has_line
        THEN (IF app THEN <<MoveTo("left")>> ELSE <<>>)
             \o LineOps(t, app, lengths, line_index)
             \o (IF selected THEN <<SetBg("selected_line")>> ELSE <<SetBg("default")>>)
             \o (IF app
                 THEN <<ClearUntilNewLine, SetBg("reset")>> \o ScrollbarOps(sb, "right", yy)
                 ELSE <<>>)
             \o <<Newline>>
        ELSE (IF app THEN <<MoveTo("left")>> ELSE <<>>) \o <<Newline>>

(* Every write of one turn of the loop of write_on, in order.              *)
RowWrites(t, app, sb, lengths, yy) ==
    LET line_index == LineIndex(t, yy)
        has_line == line_index < NbLines(t)
        selected == has_line /\ app /\ line_index = t.selection
    IN  (IF app THEN <<MoveTo("left")>> ELSE <<>>)
        \o (IF has_line THEN LineOps(t, app, lengths, line_index) ELSE <<>>)
        \o (IF selected THEN <<SetBg("selected_line")>> ELSE <<SetBg("default")>>)
        \o (IF app
            THEN <<ClearUntilNewLine, SetBg("reset")>> \o ScrollbarOps(sb, "right", yy)
            ELSE <<>>)
        \o <<Newline>>

(* The writes of a row, each tagged with its row and its line index.       *)
Tagged(ops, yy, line_index) ==
    [ i \in 1..Len(ops) |->
        [k |-> ops[i].k, col |-> ops[i].col, a |-> ops[i].a, style |-> ops[i].style,
         bg |-> ops[i].bg, w |-> ops[i].w, y |-> yy, li |-> line_index] ]

RowOps(t, app, sb, lengths, yy) ==
    Tagged(RowWrites(t, app, sb, lengths, yy), yy, LineIndex(t, yy))

(* termimad's Area::scrollbar: the thumb span for a viewport of h rows     *)
(* over content_height rows scrolled by scroll, None when all fits.        *)
AreaScrollbar(h, scroll, content_height) ==
    IF content_height <= h
    THEN None
    ELSE LET top == Min((scroll * h) \div content_height, h - 1)
             bottom == Min(top + (h * h) \div content_height, h - 1)
         IN <<top, bottom>>

WriteOnScrollbar(t, app, h) ==
    IF app THEN AreaScrollbar(h, t.scroll, NbLines(t)) ELSE None

RECURSIVE MaxOver(_, _, _)
(* The loop of user_group_max_lengths from line index i on.                *)
MaxOver(t, field, i) ==
    IF i >= NbLines(t)
    THEN 0
    ELSE Max(IF field = "user" THEN Line(t, i).user_len ELSE Line(t, i).group_len,
             MaxOver(t, field, i + 1))

(* user_group_max_lengths over the lines from the scroll on only.          *)
user_group_max_lengths_visible(t) ==
    IF t.options.show_permissions
    THEN <<MaxOver(t, "user", 1 + t.scroll), MaxOver(t, "group", 1 + t.scroll)>>
    ELSE <<0, 0>>

user_group_max_lengths(t) ==
    IF t.options.show_permissions
    THEN <<MaxOver(t, "user", 1), MaxOver(t, "group", 1)>>
    ELSE <<0, 0>>

(* DisplayableTree::out_of_app: the height of the area is the number of    *)
(* lines and in_app is false.                                              *)
out_of_app(t) == [height |-> NbLines(t), in_app |-> FALSE]

----------------------------------------------------------------------------
(* The launch arguments (src/cli.rs).                                      *)

GitIgnoreArgs == {None, "yes", "no", "auto", "bad"}

CliArgs ==
    [root : {"dir", "file", "missing"}, sizes : BOOLEAN, only_folders : BOOLEAN,
     hidden : BOOLEAN, dates : BOOLEAN, permissions : BOOLEAN, gitignore : GitIgnoreArgs]

NoArgs ==
    [root |-> "dir", sizes |-> FALSE, only_folders |-> FALSE, hidden |-> FALSE,
     dates |-> FALSE, permissions |-> FALSE, gitignore |-> None]

(* TreeOptions::default()                                                  *)
DefaultTreeOptions ==
    [show_sizes |-> FALSE, show_hidden |-> FALSE, only_folders |-> FALSE,
     show_dates |-> FALSE, show_permissions |-> FALSE, respect_git_ignore |-> "Auto"]

(* OptionBool's FromStr                                                    *)
ParseOptionBool(str) ==
    CASE str = "yes" -> "Yes"
      [] str = "no" -> "No"
      [] str = "auto" -> "Auto"
      [] OTHER -> "ArgParse"

(* The tree options after the statements of lines 152-162, in order.       *)
LaunchTreeOptions(args) ==
    LET o0 == DefaultTreeOptions
        o1 == [o0 EXCEPT !.show_sizes = args.sizes]
        o2 == IF o1.show_sizes
              THEN [o1 EXCEPT !.show_hidden = TRUE, !.respect_git_ignore = "No"]
              ELSE o1
        o3 == [o2 EXCEPT !.only_folders = args.only_folders]
        o4 == [o3 EXCEPT !.show_hidden = args.hidden]
        o5 == [o4 EXCEPT !.show_dates = args.dates]
    IN  [o5 EXCEPT !.show_permissions = args.permissions]

read_launch_args(args) ==
    IF args.root = "missing"
    THEN [ok |-> FALSE, err |-> "FileNotFound", tree_options |-> DefaultTreeOptions]
    ELSE LET o == LaunchTreeOptions(args) IN
         IF args.gitignore = None
         THEN [ok |-> TRUE, err |-> None, tree_options |-> o]
         ELSE IF ParseOptionBool(args.gitignore) = "ArgParse"
              THEN [ok |-> FALSE, err |-> "ArgParse", tree_options |-> o]
              ELSE [ok |-> TRUE, err |-> None,
                    tree_options |->
                        [o EXCEPT !.respect_git_ignore = ParseOptionBool(args.gitignore)]]

----------------------------------------------------------------------------
(* The trees and the initial states.                                       *)

(* The line sequences of n lines: every depth sequence, the root a         *)
(* directory, a line with children a directory or a link to one, the other *)
(* lines drawn from Leaves, owner and group name lengths from the given    *)
(* sets.                                                                   *)
LinesOf(n, Leaves, UserLens, GroupLens) ==
    { [ i \in 1..n |-> TreeLine(depths, i, attrs[i], ul[i], gl[i]) ] :
        depths \in DepthSeqs(n),
        attrs \in [1..n -> Leaves \cup {PlainDir}],
        ul \in [1..n -> UserLens],
        gl \in [1..n -> GroupLens] }

ValidLines(ls) ==
    /\ ls[1].line_type = "Dir"
    /\ \A i \in 1..Len(ls) :
         (i < Len(ls) /\ ls[i + 1].depth > ls[i].depth) => is_dir(ls[i])

(* Every line but the root that has no children is a file.                 *)
LeavesAreFiles(ls) ==
    \A i \in 2..Len(ls) :
        is_dir(ls[i]) => (i < Len(ls) /\ ls[i + 1].depth > ls[i].depth)

InitRender(lines, scroll, selection, options, app, h, snk) ==
    /\ tree = [lines |-> lines, scroll |-> scroll, selection |-> selection,
               options |-> options]
    /\ in_app = IF app THEN TRUE ELSE out_of_app(tree).in_app
    /\ height = IF app THEN h ELSE out_of_app(tree).height
    /\ pc = "start"
    /\ y = 0
    /\ scrollbar = None
    /\ ugml = <<0, 0>>
    /\ out = <<>>
    /\ result = "none"
    /\ sink = snk
    /\ cli_args = NoArgs
    /\ launch = None

(* Trees of every shape (directories with children, files without), every  *)
(* option setting, scroll, selection, mode and viewport height, rendered   *)
(* to a buffer.                                                            *)
InitShape ==
    \E n \in 1..MaxLines :
      \E lines \in { ls \in LinesOf(n, {BareFile}, {1}, {1}) :
                        ValidLines(ls) /\ LeavesAreFiles(ls) } :
        \E scroll \in 0..MaxScroll, selection \in 0..(n - 1), options \in TreeOptionsSet,
           app \in BOOLEAN, h \in 1..MaxHeight :
            /\ (~app => h = 1)
            /\ InitRender(lines, scroll, selection, options, app, h, "buffer")

AllLeaves == {PlainFile, BareFile, PruningLine, GoodLink, BrokenLink}

(* Trees of three lines of every kind, to look at the columns.             *)
InitCols ==
    \E lines \in { ls \in LinesOf(3, AllLeaves, {1, MaxNameLen}, {1}) :
                      ValidLines(ls) /\ ls[1].user_len = 1 } :
      \E selection \in 0..2, options \in TreeOptionsSet, app \in BOOLEAN :
          InitRender(lines, 0, selection, options, app, 3, "buffer")

(* Trees whose lines, the root included, have owner and group names of     *)
(* every length.                                                           *)
InitPerm ==
    \E lines \in { ls \in LinesOf(3, {PlainFile}, 1..MaxNameLen, 1..MaxNameLen) :
                      ValidLines(ls) /\ ls[3].line_type = "File" } :
      \E scroll \in 0..MaxScroll, show \in BOOLEAN, app \in BOOLEAN, h \in 1..MaxHeight :
          /\ (~app => h = 1)
          /\ InitRender(lines, scroll, 0, [NoColumns EXCEPT !.show_permissions = show],
                        app, h, "buffer")

(* Renders on a sink whose writes may fail.                                *)
InitIo ==
    \E n \in 1..3 :
      \E lines \in { ls \in LinesOf(n, {GoodLink}, {1}, {1}) : ValidLines(ls) } :
        \E scroll \in 0..1, selection \in 0..Min(1, n - 1), all \in BOOLEAN, app \in BOOLEAN,
           h \in {1, MaxHeight} :
            /\ (~app => h = 1)
            /\ InitRender(lines, scroll, selection,
                          [show_sizes |-> all, show_permissions |-> all, show_dates |-> all],
                          app, h, "io")

(* The program at launch, before the arguments are read.                   *)
InitLaunch ==
    /\ tree = [lines |-> <<TreeLine(<<0>>, 1, PlainDir, 1, 1)>>, scroll |-> 0,
               selection |-> 0, options |-> NoColumns]
    /\ in_app = TRUE
    /\ height = 1
    /\ pc = "launch"
    /\ y = 0
    /\ scrollbar = None
    /\ ugml = <<0, 0>>
    /\ out = <<>>
    /\ result = "none"
    /\ sink = "buffer"
    /\ cli_args \in CliArgs
    /\ launch = None

Init == InitShape \/ InitCols \/ InitPerm \/ InitIo \/ InitLaunch

----------------------------------------------------------------------------
(* The steps.                                                              *)

(* read_launch_args                                                        *)
ReadLaunchArgs ==
    /\ pc = "launch"
    /\ launch' = read_launch_args(cli_args)
    /\ pc' = "launched"
    /\ UNCHANGED <<render_vars, cli_args>>

(* write_on, lines 172-180: the locals computed before the loop.           *)
WriteOnStart ==
    /\ pc = "start"
    /\ ugml' = user_group_max_lengths(tree)
    /\ scrollbar' = WriteOnScrollbar(tree, in_app, height)
    /\ pc' = "rows"
    /\ UNCHANGED <<tree, in_app, height, y, out, result, sink, cli_args, launch>>

(* One turn of the loop of write_on, every write accepted.                 *)
WriteRow ==
    /\ pc = "rows"
    /\ y < height
    /\ out' = out \o RowOps(tree, in_app, scrollbar, ugml, y)
    /\ y' = y + 1
    /\ UNCHANGED <<tree, in_app, height, pc, scrollbar, ugml, result, sink, cli_args, launch>>

(* OnWriteError with the error dropped: the loop goes on with the next     *)
(* write.                                                                  *)
OnWriteErrorIgnored(ops, n) ==
    [out |-> out \o SubSeq(ops, 1, n) \o SubSeq(ops, n + 2, Len(ops)),
     result |-> "none", pc |-> "rows", y |-> y + 1]

(* What the `?` after a write does when the write fails after n writes of  *)
(* the row were accepted: write_on returns the error at once.              *)
OnWriteError(ops, n) ==
    [out |-> out \o SubSeq(ops, 1, n), result |-> "Err", pc |-> "done", y |-> y]

(* One turn of the loop in which a write fails.                            *)
WriteFails ==
    /\ pc = "rows"
    /\ y < height
    /\ sink = "io"
    /\ LET ops == RowOps(tree, in_app, scrollbar, ugml, y) IN
       \E n \in 0..(Len(ops) - 1) :
          LET after == OnWriteError(ops, n) IN
            /\ out' = after.out
            /\ result' = after.result
            /\ pc' = after.pc
            /\ y' = after.y
    /\ UNCHANGED <<tree, in_app, height, scrollbar, ugml, sink, cli_args, launch>>

(* write_on, line 257: the loop is over, Ok(()) is returned.               *)
WriteOnReturn ==
    /\ pc = "rows"
    /\ y = height
    /\ result' = "Ok"
    /\ pc' = "done"
    /\ UNCHANGED <<tree, in_app, height, y, scrollbar, ugml, out, sink, cli_args, launch>>

Next == ReadLaunchArgs \/ WriteOnStart \/ WriteRow \/ WriteFails \/ WriteOnReturn

Spec == Init /\ [][Next]_vars

----------------------------------------------------------------------------
(* Reading the output.                                                     *)

(* The writes of viewport row r, in order.                                 *)
RowSeq(r) == LET InRow(op) == op.y = r IN SelectSeq(out, InRow)

(* The writes of column col of viewport row r.                             *)
ColSeq(r, col) == LET InCol(op) == op.y = r /\ op.col = col IN SelectSeq(out, InCol)

(* The rows whose turn of the loop is over.                                *)
RowsDone == 0..(y - 1)

(* The rows done that show a line other than the root.                     *)
LineRowsDone == { r \in RowsDone : r + tree.scroll < NbLines(tree) /\ r > 0 }

OutOps == { out[i] : i \in 1..Len(out) }

(* A later line than line_index has an open branch at depth d.             *)
LaterRowOpen(line_index, d) ==
    \E j \in (line_index + 1)..(NbLines(tree) - 1) :
        Line(tree, j).depth > d /\ Line(tree, j).left_branchs[d + 1]

----------------------------------------------------------------------------
(* C1: every rendered row of index > 0 and depth k has exactly k branch    *)
(* glyphs; the glyph of level d is blank when left_branchs[d] is false; at *)
(* d = k-1 it is the turn glyph when no later row has an open branch at d  *)
(* and the continue glyph when one has; at d < k-1 it is the pass-through  *)
(* glyph (a later row has an open branch at d) or blank, never a turn or   *)
(* continue glyph.                                                         *)
C1_BranchPrefix ==
    \A r \in LineRowsDone :
        LET li == r + tree.scroll
            line == Line(tree, li)
            k == line.depth
            glyphs == ColSeq(r, "branch")
        IN  /\ Len(glyphs) = k
            /\ \A d \in 0..(k - 1) :
                 LET g == glyphs[d + 1].a IN
                 /\ ~line.left_branchs[d + 1] => g = "blank"
                 /\ (d = k - 1 /\ line.left_branchs[d + 1]) =>
                        g = (IF LaterRowOpen(li, d) THEN "continue" ELSE "turn")
                 /\ d < k - 1 => g \in {"pass", "blank"}
                 /\ (d < k - 1 /\ g = "pass") => LaterRowOpen(li, d)

(* A render is over in which one row has a pass-through glyph followed by  *)
(* a turn glyph and another row has a continue glyph.                      *)
C1_Witness ==
    /\ result = "Ok"
    /\ \E r \in LineRowsDone :
         LET glyphs == ColSeq(r, "branch") IN
         Len(glyphs) = 2 /\ glyphs[1].a = "pass" /\ glyphs[2].a = "turn"
    /\ \E r \in LineRowsDone :
         LET glyphs == ColSeq(r, "branch") IN
         Len(glyphs) = 1 /\ glyphs[1].a = "continue"

(* C2: the root row has no branch prefix and no size, permissions or date  *)
(* column, its name is the full path written without the highlighter; the  *)
(* highlighter is called once for every other rendered row and for no      *)
(* other.                                                                  *)
C2_RootRow ==
    /\ 0 \in RowsDone =>
         /\ \A col \in {"branch", "size", "perm", "date"} : ColSeq(0, col) = <<>>
         /\ Len(ColSeq(0, "name")) = 1
         /\ ColSeq(0, "name")[1].a = "path"
         /\ \A op \in OutOps : op.y = 0 => op.li = 0
    /\ \A op \in OutOps : op.a = "highlight" => (op.li > 0 /\ op.y > 0)
    /\ \A op \in OutOps : op.li = 0 => op.y = 0
    /\ \A r \in LineRowsDone :
         Len(ColSeq(r, "name")) = 1 /\ ColSeq(r, "name")[1].a = "highlight"

(* The root row and a highlighted row were written, with every column on,  *)
(* scrolled, the root selected.                                            *)
C2_Witness ==
    /\ result = "Ok"
    /\ in_app
    /\ tree.scroll > 0
    /\ tree.selection = 0
    /\ tree.options.show_sizes /\ tree.options.show_permissions /\ tree.options.show_dates
    /\ LineRowsDone # {}

(* C4: an interactive render goes through every viewport row 0..H-1 in     *)
(* increasing order; each row starts with a cursor move; a row past the    *)
(* end of the lines writes no content: the default background is applied,  *)
(* the line cleared to its end and the background reset.                   *)
C4_EraseEmptyRows ==
    in_app =>
      /\ \A i \in 1..(Len(out) - 1) : out[i].y <= out[i + 1].y
      /\ result = "Ok" => y = height
      /\ \A r \in RowsDone :
           LET row == RowSeq(r) IN
           /\ Len(row) >= 1
           /\ row[1].k = "MoveTo" /\ row[1].a = "left"
           /\ (LineIndex(tree, r) >= NbLines(tree)) =>
                /\ \A i \in 1..Len(row) : row[i].k = "Print" => row[i].col = "scrollbar"
                /\ Len(row) >= 4
                /\ row[2].k = "SetBg" /\ row[2].a = "default"
                /\ row[3].k = "Clear"
                /\ row[4].k = "SetBg" /\ row[4].a = "reset"

(* An interactive render is over whose last row is past the end of the     *)
(* lines.                                                                  *)
C4_Witness ==
    /\ in_app
    /\ result = "Ok"
    /\ height = MaxHeight
    /\ LineIndex(tree, height - 1) >= NbLines(tree)
    /\ NbLines(tree) > 1

(* C6: no scrollbar glyph in batch mode or when the lines fit the          *)
(* viewport; otherwise every row gets exactly one scrollbar glyph, in the  *)
(* rightmost column, thumb when top <= y <= bottom and track otherwise,    *)
(* for the one span of the render, and the span holds a row.               *)
C6_Scrollbar ==
    /\ (~in_app \/ NbLines(tree) <= height) =>
          \A op \in OutOps : op.col # "scrollbar"
    /\ (in_app /\ NbLines(tree) > height /\ pc \in {"rows", "done"}) =>
          /\ scrollbar # None
          /\ scrollbar = AreaScrollbar(height, tree.scroll, NbLines(tree))
          /\ \E r \in 0..(height - 1) : scrollbar[1] <= r /\ r <= scrollbar[2]
          /\ \A r \in RowsDone :
               LET row == RowSeq(r)
                   bar == ColSeq(r, "scrollbar")
               IN  /\ Len(bar) = 1
                   /\ bar[1].style =
                        (IF scrollbar[1] <= r /\ r <= scrollbar[2]
                         THEN "scrollbar_thumb" ELSE "scrollbar_track")
                   /\ row[Len(row) - 1] = bar[1]
                   /\ row[Len(row) - 2].k = "MoveTo" /\ row[Len(row) - 2].a = "right"
          /\ result = "Ok" =>
               \E op \in OutOps : op.col = "scrollbar" /\ op.style = "scrollbar_thumb"

(* An interactive render of more lines than rows is over, with a thumb row *)
(* and a track row.                                                        *)
C6_Witness ==
    /\ in_app
    /\ result = "Ok"
    /\ NbLines(tree) > height
    /\ \E op \in OutOps : op.col = "scrollbar" /\ op.style = "scrollbar_thumb"
    /\ \E op \in OutOps : op.col = "scrollbar" /\ op.style = "scrollbar_track"

(* Sum of the widths of a sequence of writes.                              *)
RECURSIVE WidthOf(_)
WidthOf(ops) == IF ops = <<>> THEN 0 ELSE Head(ops).w + WidthOf(Tail(ops))

(* C3: a batch render of T lines outputs exactly T rows, row k being line  *)
(* k, whatever the scroll and the selection, with no cursor move, no line  *)
(* clear, no scrollbar glyph, no selected row and no blank trailing row.   *)
C3_BatchRows ==
    (~in_app /\ result = "Ok") =>
      /\ y = NbLines(tree)
      /\ \A r \in RowsDone :
           /\ Len(ColSeq(r, "name")) = 1
           /\ \A op \in OutOps : op.y = r => op.li = r
      /\ \A op \in OutOps :
           /\ op.k \notin {"MoveTo", "Clear"}
           /\ op.col # "scrollbar"
           /\ op.bg # "sel"
           /\ ~(op.k = "SetBg" /\ op.a = "selected_line")

(* C5: on the selected row of an interactive render every column written   *)
(* is written on the selection background and the rest of the row is       *)
(* cleared with the selection background.                                  *)
C5_SelectedRow ==
    in_app =>
      \A r \in RowsDone :
        LineIndex(tree, r) = tree.selection =>
          LET row == RowSeq(r) IN
          /\ \A i \in 1..Len(row) :
               (row[i].k = "Print" /\ row[i].col # "scrollbar") => row[i].bg = "sel"
          /\ \E i \in 1..(Len(row) - 1) :
               /\ row[i].k = "SetBg" /\ row[i].a = "selected_line"
               /\ row[i + 1].k = "Clear"

(* The longest owner (or group) name among the lines of the given indices. *)
MaxNameOver(indices, field) ==
    LET lens == { IF field = "user" THEN Line(tree, i).user_len ELSE Line(tree, i).group_len :
                    i \in indices }
    IN  IF lens = {} THEN 0 ELSE CHOOSE m \in lens : \A l \in lens : l <= m

(* C7 as stated: with show_permissions on, owner and group names are       *)
(* padded to the longest owner name and the longest group name over all    *)
(* the lines, indices 0..T-1.                                              *)
C7_WidthsOverAllLines ==
    (tree.options.show_permissions /\ pc \in {"rows", "done"}) =>
      /\ ugml[1] = MaxNameOver(0..(NbLines(tree) - 1), "user")
      /\ ugml[2] = MaxNameOver(0..(NbLines(tree) - 1), "group")

(* C7 amended: with show_permissions on, owner and group names are padded  *)
(* to the longest owner name and the longest group name over the lines of  *)
(* index 1..T-1 (every line but the root, whose permissions are never      *)
(* written), whatever the scroll and the viewport height: every owner      *)
(* written takes that width and a space, every group that width and two.   *)
C7_WidthsOverLinesButRoot ==
    (tree.options.show_permissions /\ pc \in {"rows", "done"}) =>
      LET mu == MaxNameOver(1..(NbLines(tree) - 1), "user")
          mg == MaxNameOver(1..(NbLines(tree) - 1), "group")
      IN  /\ ugml = <<mu, mg>>
          /\ \A op \in OutOps :
               /\ (op.col = "perm" /\ op.a = "user") => op.w = 1 + mu
               /\ (op.col = "perm" /\ op.a = "group") => op.w = 1 + mg + 1

(* A scrolled render is over in which the longest owner name is the        *)
(* root's, the longest group name is on a line scrolled out of the         *)
(* viewport, and the owner and group of a line in the viewport were        *)
(* written.                                                                *)
C7_Witness ==
    /\ result = "Ok"
    /\ in_app
    /\ tree.options.show_permissions
    /\ tree.scroll = 1
    /\ NbLines(tree) = 3
    /\ Line(tree, 0).user_len = MaxNameLen
    /\ Line(tree, 1).user_len = 1 /\ Line(tree, 2).user_len = 1
    /\ Line(tree, 1).group_len = MaxNameLen /\ Line(tree, 2).group_len = 1
    /\ \E op \in OutOps : op.col = "perm" /\ op.a = "group" /\ op.li = 2

(* C9: each enabled optional column has the same width on every row of     *)
(* index > 0, whether the row shows the value or the placeholder.          *)
C9_ColumnWidths ==
    \A r1, r2 \in LineRowsDone :
      \A col \in {"size", "perm", "date"} :
        WidthOf(ColSeq(r1, col)) = WidthOf(ColSeq(r2, col))

(* C10: with the sizes flag, the tree options returned have show_hidden    *)
(* true whether or not the hidden flag is given, and respect_git_ignore No *)
(* unless a gitignore value is given.                                      *)
C10_SizesShowAll ==
    (pc = "launched" /\ launch.ok /\ cli_args.sizes) =>
      /\ launch.tree_options.show_hidden = TRUE
      /\ cli_args.gitignore = None => launch.tree_options.respect_git_ignore = "No"

(* C8: a write that fails ends the render at that write: no later write   *)
(* reaches the sink, write_on returns the error and never Ok, what was     *)
(* written stays written, and the Tree is unchanged.                       *)
C8_WriteFailureAborts ==
    [][ /\ tree' = tree
        /\ Len(out') >= Len(out)
        /\ SubSeq(out', 1, Len(out)) = out
        /\ result = "Err" => (result' = "Err" /\ out' = out)
        /\ (pc = "rows" /\ y < height
              /\ out' # out \o RowOps(tree, in_app, scrollbar, ugml, y)) =>
                 /\ result' = "Err"
                 /\ pc' = "done"
                 /\ Len(out') < Len(out) + Len(RowOps(tree, in_app, scrollbar, ugml, y))
        /\ result' = "Ok" => (y' = height /\ out' = out)
      ]_vars

(* A write failed in the middle of a row after whole rows were written.    *)
C8_Witness ==
    /\ result = "Err"
    /\ y > 0
    /\ out # <<>>
    /\ out[Len(out)].y = y
    /\ y < height

(* The rows drawn as selected: those with a write on the selection         *)
(* background or a selection background set.                               *)
SelectedRows ==
    { op.y : op \in { o \in OutOps : o.bg = "sel" \/ (o.k = "SetBg" /\ o.a = "selected_line") } }

(* The pairs (viewport row, line index) of the writes.                     *)
RowLines == { <<op.y, op.li>> : op \in OutOps }

(* The writes of names, in order.                                          *)
NameOps == LET IsName(op) == op.col = "name" IN SelectSeq(out, IsName)

(* C11: viewport row 0 shows line 0 whatever the scroll S and row y > 0    *)
(* shows line y + S: the line indices shown increase strictly with y, no   *)
(* line is drawn twice, at most one row is drawn as selected, and with     *)
(* S > 0 the lines 1..S are not drawn, a selection among them being        *)
(* highlighted on no row.                                                  *)
C11_RowsShowLines ==
    /\ \A op \in OutOps : op.li = (IF op.y = 0 THEN 0 ELSE op.y + tree.scroll)
    /\ \A r \in RowsDone :
         LET li == IF r = 0 THEN 0 ELSE r + tree.scroll IN
         IF li < NbLines(tree)
         THEN /\ Len(ColSeq(r, "name")) = 1
              /\ ColSeq(r, "name")[1].style = name_style(Line(tree, li))
              /\ Len(ColSeq(r, "branch")) = Line(tree, li).depth
         ELSE \A op \in OutOps : (op.y = r /\ op.k = "Print") => op.col = "scrollbar"
    /\ \A p, q \in RowLines : p[1] < q[1] => p[2] < q[2]
    /\ \A i, j \in 1..Len(NameOps) : i # j => NameOps[i].li # NameOps[j].li
    /\ Cardinality(SelectedRows) <= 1
    /\ \A r \in SelectedRows : in_app /\ LineIndex(tree, r) = tree.selection
    /\ \A op \in OutOps : ~(op.li \in 1..tree.scroll)
    /\ tree.selection \in 1..tree.scroll => SelectedRows = {}

(* A scrolled interactive render is over that drew the root and two other  *)
(* lines, the selection being on a line scrolled out of the viewport.      *)
C11_Witness ==
    /\ result = "Ok"
    /\ in_app
    /\ tree.scroll > 0
    /\ tree.selection \in 1..tree.scroll
    /\ Cardinality(LineRowsDone) >= 2
    /\ tree.options.show_sizes

(* An interactive render is over with exactly one row drawn as selected,   *)
(* below the root, in a scrolled tree.                                     *)
C11_SelectedWitness ==
    /\ result = "Ok"
    /\ tree.scroll > 0
    /\ \E r \in SelectedRows : r > 0

====
